---- MODULE Spec2Model ----
(***************************************************************************)
(* Model of MuyGPyS/gp/kernels.py: the Hyperparameter value/bounds object, *)
(* the KernelFn registry (RBF, Matern) built on it and the evaluation of   *)
(* the two kernels; and of MuyGPyS/_src/gp/kernels/shear/numpy.py: the     *)
(* six elementary shear kernels and the three block covariance tensors.    *)
(*                                                                         *)
(* Numbers live on an integer grid that counts halves: 1.0 is 2, and the   *)
(* Matern orders 0.5, 1.5 and 2.5 are the grid points 1, 3 and 5.  The     *)
(* tolerance 1e-5 of the range check is widened to one grid step, the      *)
(* smallest tolerance the grid can show, and so is the largest error a     *)
(* floating-point exp(log(x)) round trip makes (which in IEEE doubles is   *)
(* far below the tolerance, and never above it).                           *)
(***************************************************************************)
EXTENDS Integers, Sequences, FiniteSets, TLC

VARIABLES hp, hpLast, kern, hyperparameters, metric, kLast,
          dists, K, Kprev,
          diffs, L, shear33, shearKin23, shearKcross23, elem

hpVars == <<hp, hpLast>>
kVars == <<kern, hyperparameters, metric, kLast>>
(* the caller's distance tensor and the last two results of evaluating *)
evalVars == <<dists, K, Kprev>>
(* the caller's difference tensor and length scale, and what the shear     *)
(* functions returned for them                                             *)
shearVars == <<diffs, L, shear33, shearKin23, shearKcross23, elem>>
vars == <<hpVars, kVars, evalVars, shearVars>>

(* ---------------------------- bounds of the model ---------------------- *)
MaxNum == 5

(* the tolerance 1e-5 of _set_val, in grid steps *)
EPS == 1

(* ------------------------------ Python values -------------------------- *)
(* Every Python value that reaches the code is one record shape:           *)
(*   t = "none"  None (an omitted keyword)                                 *)
(*   t = "str"   the string s                                              *)
(*   t = "num"   a number (nd = 0) or a 1-d array (nd = 1), elements e     *)
(*   t = "seq"   a tuple/list whose items are in items                     *)
D(t, s, nd, e, items) == [t |-> t, s |-> s, nd |-> nd, e |-> e, items |-> items]
None_ == D("none", "", 0, <<>>, <<>>)
Str(s) == D("str", s, 0, <<>>, <<>>)
Scalar(x) == D("num", "", 0, <<x>>, <<>>)
Vec(e) == D("num", "", 1, e, <<>>)
Tuple_(items) == D("seq", "", 0, <<>>, items)
El(x) == [isnum |-> TRUE, x |-> x]
NonNum == [isnum |-> FALSE, x |-> 0]

Fixed == Str("fixed")
Pair(lo, hi) == Tuple_(<<El(lo), El(hi)>>)

(* ------------------------------- errors -------------------------------- *)
Err(kind, msg) == [kind |-> kind, msg |-> msg]
Ok == Err("", "")
ValueError(msg) == Err("ValueError", msg)
KeyError(msg) == Err("KeyError", msg)

(* a Hyperparameter object: its _val and _bounds attributes; an object     *)
(* whose attributes are not set yet has None_ in both                      *)
HP(val, bounds) == [val |-> val, bounds |-> bounds]
NoHP == HP(None_, None_)

(* ------------------------- Hyperparameter._set_bounds ------------------ *)
(* faulty variant: the order check rejects low = high *)
BoundsErrorStrict(bounds) ==
    IF bounds = Fixed THEN Ok
    ELSE IF bounds.t = "str" THEN ValueError("unknown_bound_option")
    ELSE IF bounds.t # "seq" THEN ValueError("non_iterable")
    ELSE IF Len(bounds.items) # 2 THEN ValueError("unsupported_length")
    ELSE IF ~bounds.items[1].isnum THEN ValueError("nonscalar_lower")
    ELSE IF ~bounds.items[2].isnum THEN ValueError("nonscalar_upper")
    ELSE IF bounds.items[1].x >= bounds.items[2].x THEN ValueError("lower_gt_upper")
    ELSE Ok

(* the checks of _set_bounds, in order; Ok when none raises *)
BoundsError(bounds) ==
    IF bounds = Fixed THEN Ok
    ELSE IF bounds.t = "str" THEN ValueError("unknown_bound_option")
    ELSE IF bounds.t # "seq" THEN ValueError("non_iterable")
    ELSE IF Len(bounds.items) # 2 THEN ValueError("unsupported_length")
    ELSE IF ~bounds.items[1].isnum THEN ValueError("nonscalar_lower")
    ELSE IF ~bounds.items[2].isnum THEN ValueError("nonscalar_upper")
    ELSE IF bounds.items[1].x > bounds.items[2].x THEN ValueError("lower_gt_upper")
    ELSE Ok

(* _set_bounds: raise, or store the argument itself *)
SetBounds(self, bounds) ==
    LET err == BoundsError(bounds) IN
    [err |-> err,
     self |-> IF err = Ok THEN [self EXCEPT !.bounds = bounds] ELSE self]

Low(self) == self.bounds.items[1].x
High(self) == self.bounds.items[2].x

(* --------------------------- Hyperparameter._set_val ------------------- *)
(* np.squeeze(val).astype(float): singleton axes go, the numbers stay *)
Squeeze(val) ==
    IF val.t = "num" /\ val.nd = 1 /\ Len(val.e) = 1 THEN Scalar(val.e[1]) ELSE val

(* np.isscalar(val) and val == s: true of a Python string only *)
IsStr(val, s) == val.t = "str" /\ val.s = s

(* np.random.uniform(low, high): low + (high - low) * u, u in [0, 1);      *)
(* rounding lets the result reach high, never pass it                      *)
Uniform(lo, hi) == IF lo <= hi THEN lo..hi ELSE {}

(* np.exp(np.log(x)) in floating point: x up to one step of rounding error *)
ExpOfLog(x) == {x - 1, x, x + 1}

(* np.exp(np.random.uniform(np.log(low), np.log(high))) *)
LogUniform(lo, hi) == UNION {ExpOfLog(x) : x \in Uniform(lo, hi)}

(* np.any(val < self._bounds[0] - 1e-5) *)
AnyBelow(val, lo) == \E i \in 1..Len(val.e) : val.e[i] < lo - EPS

(* faulty variant: the upper check without its tolerance *)
AnyAboveNoTol(val, hi) == \E i \in 1..Len(val.e) : val.e[i] > hi

(* np.any(val > self._bounds[1] + 1e-5) *)
AnyAbove(val, hi) == \E i \in 1..Len(val.e) : val.e[i] > hi + EPS

(* faulty variant: only "sample" is refused under fixed bounds *)
IsSamplingOnlySample(val) == IsStr(val, "sample")

(* val == "sample" or val == "log_sample" *)
IsSampling(val) == IsStr(val, "sample") \/ IsStr(val, "log_sample")

Res(err, self, drew) == [err |-> err, self |-> self, drew |-> drew]
Stored(self, val, drew) == Res(Ok, [self EXCEPT !.val = val], drew)
Raised(self, msg) == Res(ValueError(msg), self, FALSE)

(* the set of outcomes of self._set_val(val0) *)
SetVal(self, val0) ==
    LET val == IF val0.t # "str" THEN Squeeze(val0) ELSE val0 IN
    IF self.bounds = Fixed
    THEN IF IsSampling(val)
         THEN {Raised(self, "need_bounds_to_sample")}
         ELSE {Stored(self, val, FALSE)}
    ELSE IF IsStr(val, "sample")
         THEN {Stored(self, Scalar(x), TRUE) : x \in Uniform(Low(self), High(self))}
    ELSE IF IsStr(val, "log_sample")
         THEN {Stored(self, Scalar(x), TRUE) : x \in LogUniform(Low(self), High(self))}
    ELSE IF IsStr(val, "learn")
         THEN {Stored(self, val, FALSE)}
    ELSE IF val.t = "str"
         THEN {Raised(self, "string_not_supported")}
    ELSE IF AnyBelow(val, Low(self))
         THEN {Raised(self, "lesser_than_lower_bound")}
    ELSE IF AnyAbove(val, High(self))
         THEN {Raised(self, "greater_than_upper_bound")}
    ELSE {Stored(self, val, FALSE)}

(* Hyperparameter._set(val, bounds): bounds first, then the value *)
Set_(self, val, bounds) ==
    LET b == IF bounds # None_ THEN SetBounds(self, bounds)
             ELSE [err |-> Ok, self |-> self] IN
    IF b.err # Ok THEN {Res(b.err, b.self, FALSE)}
    ELSE IF val # None_ THEN SetVal(b.self, val)
    ELSE {Res(Ok, b.self, FALSE)}

(* Hyperparameter.__init__(val, bounds) on a fresh object *)
HyperparameterInit(val, bounds) ==
    LET b == SetBounds(NoHP, bounds) IN
    IF b.err # Ok THEN {Res(b.err, b.self, FALSE)} ELSE SetVal(b.self, val)

(* ------------------------------ input domains -------------------------- *)
Nums == 0..MaxNum
BoundNums == 2..(MaxNum - 2)
VecNums == {0, MaxNum}
NumVals == {Scalar(x) : x \in Nums} \cup {Vec(<<x>>) : x \in VecNums}
             \cup {Vec(<<x, y>>) : x \in VecNums, y \in VecNums}
StrVals == {Str("sample"), Str("log_sample"), Str("learn"), Str("foo")}
ValDescs == NumVals \cup StrVals
BoundsDescs ==
    {Fixed, Str("foo"), Scalar(2), Tuple_(<<El(1)>>), Tuple_(<<El(1), El(2), El(3)>>),
     Tuple_(<<NonNum, El(2)>>), Tuple_(<<El(1), NonNum>>)}
      \cup {Pair(lo, hi) : lo \in BoundNums, hi \in BoundNums}

Last(op, val, bounds, err, drew) ==
    [op |-> op, val |-> val, bounds |-> bounds, err |-> err, drew |-> drew]

(* ---------------------- the standalone Hyperparameter ------------------ *)
(* h = Hyperparameter(val, bounds); a raise leaves h as it was *)
Construct ==
    \E val \in ValDescs, bounds \in BoundsDescs :
      \E r \in HyperparameterInit(val, bounds) :
        /\ hp' = IF r.err = Ok THEN r.self ELSE hp
        /\ hpLast' = Last("construct", val, bounds, r.err, r.drew)
        /\ UNCHANGED <<kVars, evalVars, shearVars>>

(* h._set(val=..., bounds=...) on a constructed object *)
Update ==
    /\ hp # NoHP
    /\ \E val \in ValDescs \cup {None_}, bounds \in BoundsDescs \cup {None_} :
         \E r \in Set_(hp, val, bounds) :
           /\ hp' = r.self
           /\ hpLast' = Last("update", val, bounds, r.err, r.drew)
           /\ UNCHANGED <<kVars, evalVars, shearVars>>


(* ------------------------------ KernelFn -------------------------------- *)
(* the default value 1.0 of length_scale and nu, in halves *)
DefaultVal == 2

(* a hyperparameter dict {"val": ..., "bounds": ...} passed under a name;  *)
(* None_ stands for a key the dict does not have                           *)
Arg(name, val, bounds) == [name |-> name, val |-> val, bounds |-> bounds]

(* faulty variant: the "bounds" key of the dict is never looked at *)
InitHyperparameterNoBounds(val_def, bounds_def, kwargs) ==
    HyperparameterInit(IF kwargs.val # None_ THEN kwargs.val ELSE val_def, bounds_def)

(* _init_hyperparameter(val_def, bounds_def, kwargs) *)
InitHyperparameter(val_def, bounds_def, kwargs) ==
    HyperparameterInit(IF kwargs.val # None_ THEN kwargs.val ELSE val_def,
                       IF kwargs.bounds # None_ THEN kwargs.bounds ELSE bounds_def)

KRes(err, hps, m) == [err |-> err, hps |-> hps, metric |-> m]

(* KernelFn.__init__: an empty dict and an empty metric *)
EmptyParams == [n \in {} |-> NoHP]

(* RBF.__init__(length_scale, metric) *)
RBFInit(length_scale, m) ==
    {IF ls.err # Ok THEN KRes(ls.err, EmptyParams, "")
     ELSE KRes(Ok, [n \in {"length_scale"} |-> ls.self], m) :
       ls \in InitHyperparameter(Scalar(DefaultVal), Fixed, length_scale)}

(* faulty variant: nu is never entered into the dict *)
MaternParamsNoNu(nu, ls) == [n \in {"length_scale"} |-> ls]

(* self.hyperparameters["nu"] = self.nu; ...["length_scale"] = ... *)
MaternParams(nu, ls) ==
    [n \in {"nu", "length_scale"} |-> IF n = "nu" THEN nu ELSE ls]

(* Matern.__init__(nu, length_scale, metric): nu first *)
MaternInit(nu, length_scale, m) ==
    UNION {IF n.err # Ok THEN {KRes(n.err, EmptyParams, "")}
           ELSE {IF ls.err # Ok THEN KRes(ls.err, EmptyParams, "")
                 ELSE KRes(Ok, MaternParams(n.self, ls.self), m) :
                   ls \in InitHyperparameter(Scalar(DefaultVal), Fixed, length_scale)} :
             n \in InitHyperparameter(Scalar(DefaultVal), Fixed, nu)}

(* faulty variant: the message does not say which tag was refused *)
GetKernelResultsNoTag(tag, args, m) ==
    IF tag = "rbf" THEN RBFInit(args[1], IF m = "" THEN "F2" ELSE m)
    ELSE IF tag = "matern" THEN MaternInit(args[1], args[2], IF m = "" THEN "l2" ELSE m)
    ELSE {KRes(ValueError("Kernel type is not supported!"), EmptyParams, "")}

(* _get_kernel(kern, kwargs); metric "" is an omitted keyword *)
GetKernelResults(tag, args, m) ==
    IF tag = "rbf" THEN RBFInit(args[1], IF m = "" THEN "F2" ELSE m)
    ELSE IF tag = "matern" THEN MaternInit(args[1], args[2], IF m = "" THEN "l2" ELSE m)
    ELSE {KRes(ValueError("Kernel type " \o tag \o " is not supported!"), EmptyParams, "")}

(* faulty variant: every entry of the dict becomes the object just updated *)
UpdatedAll(hps, name, self) == [n \in DOMAIN hps |-> self]

(* the object under hps[name] after its _set *)
Updated(hps, name, self) == [hps EXCEPT ![name] = self]

(* KernelFn.set_params(kwargs) from the i-th keyword on: the loop stops  *)
(* at the first raise and keeps what it did before                         *)
RECURSIVE SetParamsFrom(_, _, _)
SetParamsFrom(hps, updates, i) ==
    IF i > Len(updates) THEN {[err |-> Ok, hps |-> hps]}
    ELSE LET u == updates[i] IN
         IF u.name \notin DOMAIN hps
         THEN {[err |-> KeyError(u.name), hps |-> hps]}
         ELSE UNION {IF r.err # Ok
                     THEN {[err |-> r.err, hps |-> Updated(hps, u.name, r.self)]}
                     ELSE SetParamsFrom(Updated(hps, u.name, r.self), updates, i + 1) :
                       r \in Set_(hps[u.name], u.val, u.bounds)}

(* ------------------------- kernel input domains ------------------------ *)
KVals == {None_, Scalar(2), Scalar(MaxNum)}
KBounds == {None_, Fixed, Pair(2, 3), Pair(3, 2)}
KArgs(name) == {Arg(name, v, b) : v \in KVals, b \in KBounds}
(* an unknown name fails at the lookup, before its dict is looked at *)
UpdateArgs == KArgs("length_scale") \cup KArgs("nu") \cup {Arg("bogus", Scalar(2), None_)}
Updates ==
    {<<>>} \cup {<<u>> : u \in UpdateArgs}
      \cup {s \in {<<u, w>> : u \in UpdateArgs, w \in UpdateArgs} : s[1].name # s[2].name}
Metrics == {"", "l2"}
(* the two supported tags, and two that are not: the match is exact *)
Tags == {"rbf", "matern", "linear", "RBF"}

KLast(op, tag, m, args, err) ==
    [op |-> op, tag |-> tag, metric |-> m, args |-> args, err |-> err]

(* an array: its shape and its entries under their (0-based) indices *)
Tensor(shape, data) == [shape |-> shape, data |-> data]
(* no array yet *)
NoTensor == Tensor(<<>>, <<>>)
(* no elementary kernel evaluated yet *)
NoElem == [at |-> <<>>, k |-> <<>>]

(* no Hyperparameter and no kernel constructed yet, nothing evaluated *)
Init ==
    /\ hp = NoHP
    /\ hpLast = Last("none", None_, None_, Ok, FALSE)
    /\ kern = "none"
    /\ hyperparameters = EmptyParams
    /\ metric = ""
    /\ kLast = KLast("none", "", "", <<>>, Ok)
    /\ dists = <<>> /\ K = <<>> /\ Kprev = <<>>
    /\ diffs = NoTensor /\ L = 1
    /\ shear33 = NoTensor /\ shearKin23 = NoTensor /\ shearKcross23 = NoTensor
    /\ elem = NoElem

(* k = _get_kernel(tag, kwargs); a raise leaves k as it was *)
GetKernel ==
    \E tag \in Tags, m \in Metrics :
      \E args \in IF tag = "rbf" THEN {<<a>> : a \in KArgs("length_scale")}
                  ELSE IF tag = "matern"
                       THEN {<<n, a>> : n \in KArgs("nu"), a \in KArgs("length_scale")}
                       ELSE {<<>>} :
        \E r \in GetKernelResults(tag, args, m) :
          /\ kern' = IF r.err = Ok THEN tag ELSE kern
          /\ hyperparameters' = IF r.err = Ok THEN r.hps ELSE hyperparameters
          /\ metric' = IF r.err = Ok THEN r.metric ELSE metric
          /\ kLast' = KLast("get_kernel", tag, m, args, r.err)
          /\ UNCHANGED <<hpVars, evalVars, shearVars>>

(* k.set_params(updates) on a constructed kernel *)
SetParams ==
    /\ kern # "none"
    /\ \E updates \in Updates :
         \E r \in SetParamsFrom(hyperparameters, updates, 1) :
           /\ hyperparameters' = r.hps
           /\ kLast' = KLast("set_params", "", "", updates, r.err)
           /\ UNCHANGED <<kern, metric, hpVars, evalVars, shearVars>>

Next == GetKernel \/ SetParams
Spec == Init /\ [][Next]_vars

NextHP == Construct \/ Update
SpecHP == Init /\ [][NextHP]_vars

(* ------------------------- evaluating a kernel ------------------------- *)
(* the largest entry of a distance tensor, in halves *)
MaxDist == 4

(* An array entry is the number n/d (form "num"; a d of 0 is what a        *)
(* division by zero left), the machine epsilon (form "eps"), a NaN (form   *)
(* "nan"), or a Matern formula applied to the entry x it was computed      *)
(* from: x = "eps" when that entry was the machine epsilon, else n/d.      *)
V(form, x, n, d, nu) == [form |-> form, x |-> x, n |-> n, d |-> d, nu |-> nu]
Num(n, d) == V("num", "", n, d, 0)
NaN == V("nan", "", 0, 0, 0)
Eps == V("eps", "", 0, 0, 0)

(* np.exp in a fixed-point float with ExpOne steps between 0 and 1: entry  *)
(* t + 1 of ExpTable is exp(-t/4) rounded to the nearest step, and past    *)
(* the table the result underflows to 0                                    *)
ExpOne == 8
ExpTable == <<8, 6, 5, 4, 3, 2, 2, 1, 1, 1, 1, 1>>

(* np.exp(-(n/d)) for n, d >= 0: 0/0 is NaN and n/0 is inf *)
ExpNeg(n, d) ==
    IF d = 0 THEN (IF n = 0 THEN NaN ELSE Num(0, ExpOne))
    ELSE LET t == (4 * n) \div d
         IN Num(IF t < Len(ExpTable) THEN ExpTable[t + 1] ELSE 0, ExpOne)

(* what calling a hyperparameter returns: its value, here a 0-d number *)
ValOf(h) == h.val.e[1]

(* faulty variant: the length scale is not squared *)
RBFCallNoSquare(hps, squared_dists) ==
    LET ls == ValOf(hps["length_scale"])
    IN [K |-> [i \in DOMAIN squared_dists |->
                 ExpNeg(squared_dists[i].n, squared_dists[i].d * ls)],
        dists |-> squared_dists]

(* RBF.__call__(squared_dists): np.exp(-squared_dists / (2 * ls ** 2)), a  *)
(* new array; with ls counted in halves 2 * ls ** 2 is ls * ls / 2         *)
RBFCall(hps, squared_dists) ==
    LET ls == ValOf(hps["length_scale"])
    IN [K |-> [i \in DOMAIN squared_dists |->
                 ExpNeg(2 * squared_dists[i].n, squared_dists[i].d * ls * ls)],
        dists |-> squared_dists]

(* the orders nu that have a closed form, in halves; np.inf is above every *)
(* other number                                                            *)
NuHalf == 1
NuThreeHalves == 3
NuFiveHalves == 5
NuInf == MaxNum + 2

(* faulty variant: no branch for nu = inf *)
MaternFormNoInf(nu) ==
    IF nu = NuHalf THEN "exp"
    ELSE IF nu = NuThreeHalves THEN "matern32"
    ELSE IF nu = NuFiveHalves THEN "matern52"
    ELSE "bessel"

(* the if/elif chain of Matern.__call__ on nu: exp(-d), (1 + sqrt(3) d)    *)
(* exp(-sqrt(3) d), (1 + sqrt(5) d + 5 d^2 / 3) exp(-sqrt(5) d),           *)
(* exp(-d^2 / 2), else the Bessel form                                     *)
MaternForm(nu) ==
    IF nu = NuHalf THEN "exp"
    ELSE IF nu = NuThreeHalves THEN "matern32"
    ELSE IF nu = NuFiveHalves THEN "matern52"
    ELSE IF nu = NuInf THEN "gauss"
    ELSE "bessel"

(* a / (ls / 2): the entry a divided by a length scale counted in halves *)
DivBy(a, ls) == Num(2 * a.n, a.d * ls)
(* K == 0.0 on one entry: 0/0 is NaN, not zero *)
IsZero(a) == a.form = "num" /\ a.n = 0 /\ a.d # 0
(* the formula form, of order nu, on the entry a *)
Apply(form, a, nu) == V(form, IF a.form = "eps" THEN "eps" ELSE "", a.n, a.d, nu)

(* Matern.__call__ after the division: heap holds the arrays alive in the  *)
(* call and the name dists refers to heap[local].  The closed forms build  *)
(* a new array K; the Bessel form binds K to the array of dists and        *)
(* changes it in place: zeros get the machine epsilon added, then fill     *)
(* and two *= leave the formula of (nu, sqrt(2 nu) K) in every entry.      *)
MaternOn(nu, heap, local) ==
    LET form == MaternForm(nu) IN
    IF form # "bessel"
    THEN [K |-> [i \in DOMAIN heap[local] |-> Apply(form, heap[local][i], 0)],
          heap |-> heap]
    ELSE LET h1 == [heap EXCEPT ![local] =
                      [i \in DOMAIN @ |-> IF IsZero(@[i]) THEN Eps ELSE @[i]]]
             tmp == h1[local]
             h2 == [h1 EXCEPT ![local] =
                      [i \in DOMAIN @ |-> Apply("bessel", tmp[i], nu)]]
         IN [K |-> h2[local], heap |-> h2]

(* faulty variant: dists /= length_scale, in the caller's array *)
MaternCallInPlace(hps, dists_arg) ==
    LET ls == ValOf(hps["length_scale"])
        heap == [r \in {"arg"} |-> [i \in DOMAIN dists_arg |-> DivBy(dists_arg[i], ls)]]
        r == MaternOn(ValOf(hps["nu"]), heap, "arg")
    IN [K |-> r.K, dists |-> r.heap["arg"]]

(* Matern.__call__(dists): dists = dists / length_scale makes a new array  *)
(* and rebinds the local name to it; the caller's array stays under "arg"  *)
MaternCall(hps, dists_arg) ==
    LET ls == ValOf(hps["length_scale"])
        heap == [r \in {"arg", "new"} |->
                   IF r = "arg" THEN dists_arg
                   ELSE [i \in DOMAIN dists_arg |-> DivBy(dists_arg[i], ls)]]
        r == MaternOn(ValOf(hps["nu"]), heap, "new")
    IN [K |-> r.K, dists |-> r.heap["arg"]]

(* the tensors a caller passes: one or two entries k/2 *)
DistTensors ==
    {<<Num(a, 2)>> : a \in 0..MaxDist}
      \cup {<<Num(a, 2), Num(b, 2)>> : a \in 0..MaxDist, b \in 0..MaxDist}
(* the values a fixed length_scale and a fixed nu are given *)
LengthScales == 0..MaxNum
Nus == (0..MaxNum) \cup {NuInf}

(* a kernel constructed with fixed hyperparameters, and a distance tensor  *)
(* in the caller's hands                                                   *)
InitEval ==
    /\ hp = NoHP
    /\ hpLast = Last("none", None_, None_, Ok, FALSE)
    /\ \E ls \in LengthScales :
         \/ /\ kern = "rbf" /\ metric = "F2"
            /\ hyperparameters = [n \in {"length_scale"} |-> HP(Scalar(ls), Fixed)]
            /\ kLast = KLast("get_kernel", "rbf", "",
                             <<Arg("length_scale", Scalar(ls), None_)>>, Ok)
         \/ \E nu \in Nus :
              /\ kern = "matern" /\ metric = "l2"
              /\ hyperparameters = MaternParams(HP(Scalar(nu), Fixed), HP(Scalar(ls), Fixed))
              /\ kLast = KLast("get_kernel", "matern", "",
                               <<Arg("nu", Scalar(nu), None_),
                                 Arg("length_scale", Scalar(ls), None_)>>, Ok)
    /\ dists \in DistTensors
    /\ K = <<>> /\ Kprev = <<>>
    /\ diffs = NoTensor /\ L = 1
    /\ shear33 = NoTensor /\ shearKin23 = NoTensor /\ shearKcross23 = NoTensor
    /\ elem = NoElem

(* K = k(dists): the result, and what the call left in the caller's array *)
Evaluate ==
    /\ kern \in {"rbf", "matern"} /\ dists # <<>>
    /\ LET r == IF kern = "rbf" THEN RBFCall(hyperparameters, dists)
                ELSE MaternCall(hyperparameters, dists)
       IN /\ K' = r.K
          /\ Kprev' = K
          /\ dists' = r.dists
    /\ UNCHANGED <<hpVars, kVars, shearVars>>

NextEval == Evaluate
SpecEval == InitEval /\ [][NextEval]_vars

(* --------------------------- shear kernels ----------------------------- *)
(* The shear functions take plain floats: differences and length scale are *)
(* whole numbers here, and the arithmetic on them is exact.                *)
MaxBatch == 2
MaxPts == 2
MaxL == 2

(* the indices of an array of this shape *)
RECURSIVE Indices(_)
Indices(shape) ==
    IF shape = <<>> THEN {<<>>}
    ELSE {<<i>> \o r : i \in 0..(shape[1] - 1), r \in Indices(Tail(shape))}

(* shape[:-1] *)
Front(shape) == SubSeq(shape, 1, Len(shape) - 1)

(* An entry of a result is the number (c4 / 4) * exp(-e[1] / e[2]) / l4,   *)
(* with c4 four times the polynomial of the kernel; a polynomial of 0      *)
(* gives the number 0.0, which is also what np.zeros holds.                *)
Zero == [c4 |-> 0, e |-> <<0, 1>>, l4 |-> 1]
Q(c4, exp, length_scale) ==
    IF c4 = 0 THEN Zero
    ELSE [c4 |-> c4, e |-> exp,
          l4 |-> length_scale * length_scale * length_scale * length_scale]

(* faulty variant: 4 L^2 in place of 8 L^2 *)
KkFnFour(exp, sum_sq_diffs, prod_sq_diffs, sum_quad_diffs, length_scale) ==
    Q(4 * length_scale * length_scale - 8 * length_scale * sum_sq_diffs
        + 2 * prod_sq_diffs + sum_quad_diffs, exp, length_scale)

(* _kk_fn *)
KkFn(exp, sum_sq_diffs, prod_sq_diffs, sum_quad_diffs, length_scale) ==
    Q(8 * length_scale * length_scale - 8 * length_scale * sum_sq_diffs
        + 2 * prod_sq_diffs + sum_quad_diffs, exp, length_scale)

(* faulty variant: the sign of the 6 L term is lost *)
Kg1FnSign(exp, diff_xy_quad_diffs, diff_yx_sq_diffs, length_scale) ==
    Q(diff_xy_quad_diffs - 6 * length_scale * diff_yx_sq_diffs, exp, length_scale)

(* _kg1_fn *)
Kg1Fn(exp, diff_xy_quad_diffs, diff_yx_sq_diffs, length_scale) ==
    Q(6 * length_scale * diff_yx_sq_diffs + diff_xy_quad_diffs, exp, length_scale)

(* _kg2_fn: the factor 0.5 is 2/4 *)
Kg2Fn(exp, sum_sq_diffs, prod_diffs, length_scale) ==
    Q(2 * prod_diffs * (-6 * length_scale + sum_sq_diffs), exp, length_scale)

(* _g1g1_fn *)
G1g1Fn(exp, sum_sq_diffs, sum_quad_diffs, prod_sq_diffs, length_scale) ==
    Q(4 * length_scale * length_scale - 4 * length_scale * sum_sq_diffs
        - 2 * prod_sq_diffs + sum_quad_diffs, exp, length_scale)

(* _g1g2_fn *)
G1g2Fn(exp, diff_xy_sq_diffs, prod_diffs, length_scale) ==
    Q(2 * prod_diffs * diff_xy_sq_diffs, exp, length_scale)

(* _g2g2_fn: no factor 0.25, so 4/4 *)
G2g2Fn(exp, sum_sq_diffs, prod_sq_diffs, length_scale) ==
    Q(4 * (length_scale * length_scale - length_scale * sum_sq_diffs + prod_sq_diffs),
      exp, length_scale)

(* the intermediate tensors every assembly function computes first, each   *)
(* indexed like diffs without its last axis                                *)
Scalars(t, length_scale) ==
    LET pairs == Indices(Front(t.shape))
        x(p) == t.data[p \o <<0>>]
        y(p) == t.data[p \o <<1>>]
    IN [prod_diffs |-> [p \in pairs |-> x(p) * y(p)],
        sum_sq_diffs |-> [p \in pairs |-> x(p) * x(p) + y(p) * y(p)],
        prod_sq_diffs |-> [p \in pairs |-> (x(p) * x(p)) * (y(p) * y(p))],
        sum_quad_diffs |-> [p \in pairs |-> x(p) * x(p) * x(p) * x(p)
                                            + y(p) * y(p) * y(p) * y(p)],
        diff_yx_sq_diffs |-> [p \in pairs |-> y(p) * y(p) - x(p) * x(p)],
        diff_xy_sq_diffs |-> [p \in pairs |-> x(p) * x(p) - y(p) * y(p)],
        diff_xy_quad_diffs |-> [p \in pairs |-> x(p) * x(p) * x(p) * x(p)
                                                - y(p) * y(p) * y(p) * y(p)],
        exp_inv_scaled_sum_sq_diffs |->
            [p \in pairs |-> <<x(p) * x(p) + y(p) * y(p), 2 * length_scale>>]]

(* the six kernels over the whole tensor, as the call sites pass them *)
Kernels(t, length_scale) ==
    LET s == Scalars(t, length_scale)
        e == s.exp_inv_scaled_sum_sq_diffs
    IN [kk |-> [p \in DOMAIN e |-> KkFn(e[p], s.sum_sq_diffs[p], s.prod_sq_diffs[p],
                                        s.sum_quad_diffs[p], length_scale)],
        kg1 |-> [p \in DOMAIN e |-> Kg1Fn(e[p], s.diff_xy_quad_diffs[p],
                                          s.diff_yx_sq_diffs[p], length_scale)],
        kg2 |-> [p \in DOMAIN e |-> Kg2Fn(e[p], s.sum_sq_diffs[p], s.prod_diffs[p],
                                          length_scale)],
        g1g1 |-> [p \in DOMAIN e |-> G1g1Fn(e[p], s.sum_sq_diffs[p], s.sum_quad_diffs[p],
                                            s.prod_sq_diffs[p], length_scale)],
        g1g2 |-> [p \in DOMAIN e |-> G1g2Fn(e[p], s.diff_xy_sq_diffs[p], s.prod_diffs[p],
                                            length_scale)],
        g2g2 |-> [p \in DOMAIN e |-> G2g2Fn(e[p], s.sum_sq_diffs[p], s.prod_sq_diffs[p],
                                            length_scale)]]

(* np.zeros(new_shape) *)
Zeros(shape) == Tensor(shape, [idx \in Indices(shape) |-> Zero])

(* faulty variant: the two field indices are taken in the other order *)
AssignBlockTransposed(t, i, j, val) ==
    LET r == Len(t.shape)
    IN [t EXCEPT !.data =
          [idx \in DOMAIN @ |->
             IF idx[r - 3] = j /\ idx[r - 1] = i
             THEN val[SubSeq(idx, 1, r - 4) \o <<idx[r - 2], idx[r]>>]
             ELSE @[idx]]]

(* full_m[..., i, :, j, :] = val, with val indexed by prefix + (a, b) *)
AssignBlock(t, i, j, val) ==
    LET r == Len(t.shape)
    IN [t EXCEPT !.data =
          [idx \in DOMAIN @ |->
             IF idx[r - 3] = i /\ idx[r - 1] = j
             THEN val[SubSeq(idx, 1, r - 4) \o <<idx[r - 2], idx[r]>>]
             ELSE @[idx]]]

(* faulty variant: only the first target of the chain is written *)
AssignBothFirstOnly(t, i1, j1, i2, j2, val) == AssignBlock(t, i1, j1, val)

(* full_m[..., i1, :, j1, :] = full_m[..., i2, :, j2, :] = val *)
AssignBoth(t, i1, j1, i2, j2, val) ==
    AssignBlock(AssignBlock(t, i1, j1, val), i2, j2, val)

(* an index of the squeezed array, from the index of the array *)
RECURSIVE SqueezeIdx(_, _)
SqueezeIdx(idx, shape) ==
    IF idx = <<>> THEN <<>>
    ELSE (IF shape[1] = 1 THEN <<>> ELSE <<idx[1]>>)
           \o SqueezeIdx(Tail(idx), Tail(shape))

(* and back: the axes of length 1 have the index 0 *)
RECURSIVE ExpandIdx(_, _)
ExpandIdx(k, shape) ==
    IF shape = <<>> THEN <<>>
    ELSE IF shape[1] = 1 THEN <<0>> \o ExpandIdx(k, Tail(shape))
    ELSE <<k[1]>> \o ExpandIdx(Tail(k), Tail(shape))

(* np.squeeze(full_m): every axis of length 1 is removed *)
SqueezeT(t) ==
    LET new_shape == SelectSeq(t.shape, LAMBDA x : x # 1)
    IN Tensor(new_shape,
              [k \in Indices(new_shape) |-> t.data[ExpandIdx(k, t.shape)]])

(* prefix + (f1, n, f2, m) for diffs of shape prefix + (n, m, 2) *)
NewShape(t, f1, f2) ==
    LET shape == Front(t.shape)
        r == Len(shape)
    IN SubSeq(shape, 1, r - 2) \o <<f1, shape[r - 1], f2, shape[r]>>

(* _shear_33_fn(diffs, length_scale) *)
Shear33Fn(t, length_scale) ==
    LET k == Kernels(t, length_scale)
        m0 == Zeros(NewShape(t, 3, 3))
        m1 == AssignBlock(m0, 0, 0, k.kk)
        m2 == AssignBoth(m1, 0, 1, 1, 0, k.kg1)
        m3 == AssignBoth(m2, 0, 2, 2, 0, k.kg2)
        m4 == AssignBlock(m3, 1, 1, k.g1g1)
        m5 == AssignBoth(m4, 1, 2, 2, 1, k.g1g2)
        m6 == AssignBlock(m5, 2, 2, k.g2g2)
    IN SqueezeT(m6)

(* faulty variant: block (1, 1) gets the kernel of block (0, 0) again *)
ShearKin23FnSame(t, length_scale) ==
    LET k == Kernels(t, length_scale)
        m0 == Zeros(NewShape(t, 2, 2))
        m1 == AssignBlock(m0, 0, 0, k.g1g1)
        m2 == AssignBoth(m1, 0, 1, 1, 0, k.g1g2)
        m3 == AssignBlock(m2, 1, 1, k.g1g1)
    IN SqueezeT(m3)

(* _shear_Kin23_fn(diffs, length_scale) *)
ShearKin23Fn(t, length_scale) ==
    LET k == Kernels(t, length_scale)
        m0 == Zeros(NewShape(t, 2, 2))
        m1 == AssignBlock(m0, 0, 0, k.g1g1)
        m2 == AssignBoth(m1, 0, 1, 1, 0, k.g1g2)
        m3 == AssignBlock(m2, 1, 1, k.g2g2)
    IN SqueezeT(m3)

(* faulty variant: blocks (0, 0) and (1, 0) hold each other's kernel *)
ShearKcross23FnSwapped(t, length_scale) ==
    LET k == Kernels(t, length_scale)
        m0 == Zeros(NewShape(t, 2, 3))
        m1 == AssignBlock(m0, 0, 0, k.kg2)
        m2 == AssignBlock(m1, 1, 0, k.kg1)
        m3 == AssignBlock(m2, 0, 1, k.g1g1)
        m4 == AssignBoth(m3, 0, 2, 1, 1, k.g1g2)
        m5 == AssignBlock(m4, 1, 2, k.g2g2)
    IN SqueezeT(m5)

(* _shear_Kcross23_fn(diffs, length_scale) *)
ShearKcross23Fn(t, length_scale) ==
    LET k == Kernels(t, length_scale)
        m0 == Zeros(NewShape(t, 2, 3))
        m1 == AssignBlock(m0, 0, 0, k.kg1)
        m2 == AssignBlock(m1, 1, 0, k.kg2)
        m3 == AssignBlock(m2, 0, 1, k.g1g1)
        m4 == AssignBoth(m3, 0, 2, 1, 1, k.g1g2)
        m5 == AssignBlock(m4, 1, 2, k.g2g2)
    IN SqueezeT(m5)

(* ------------------------- shear input domains ------------------------- *)
(* the batch axes of diffs: none, or one of length 1..MaxBatch *)
Prefixes == {<<>>} \cup {<<b>> : b \in 1..MaxBatch}
(* the coordinates the row points and the column points are taken from *)
RowCoords == {<<0, 0>>, <<1, 2>>}
ColCoords == {<<0, 0>>, <<2, -1>>}

(* the tensor of the differences rows[a] - cols[b]; batch element beta has *)
(* its x differences moved by shift * beta                                 *)
DiffsOf(prefix, rows, cols, shift) ==
    LET shape == prefix \o <<Len(rows), Len(cols), 2>>
        r == Len(shape)
    IN Tensor(shape,
              [idx \in Indices(shape) |->
                 rows[idx[r - 2] + 1][idx[r] + 1] - cols[idx[r - 1] + 1][idx[r] + 1]
                   + (IF prefix # <<>> /\ idx[r] = 0 THEN shift * idx[1] ELSE 0)])

DiffTensors ==
    {DiffsOf(prefix, rows, cols, shift) :
       prefix \in Prefixes, shift \in {0, 1},
       rows \in UNION {[1..n -> RowCoords] : n \in 1..MaxPts},
       cols \in UNION {[1..m -> ColCoords] : m \in 1..MaxPts}}

(* a difference tensor and a length scale in the caller's hands *)
InitShear ==
    /\ hp = NoHP
    /\ hpLast = Last("none", None_, None_, Ok, FALSE)
    /\ kern = "none"
    /\ hyperparameters = EmptyParams
    /\ metric = ""
    /\ kLast = KLast("none", "", "", <<>>, Ok)
    /\ dists = <<>> /\ K = <<>> /\ Kprev = <<>>
    /\ diffs \in DiffTensors
    /\ L \in 1..MaxL
    /\ shear33 = NoTensor /\ shearKin23 = NoTensor /\ shearKcross23 = NoTensor
    /\ elem = NoElem

Shear33 ==
    /\ shear33' = Shear33Fn(diffs, L)
    /\ UNCHANGED <<hpVars, kVars, evalVars, diffs, L, shearKin23, shearKcross23, elem>>

ShearKin23 ==
    /\ shearKin23' = ShearKin23Fn(diffs, L)
    /\ UNCHANGED <<hpVars, kVars, evalVars, diffs, L, shear33, shearKcross23, elem>>

ShearKcross23 ==
    /\ shearKcross23' = ShearKcross23Fn(diffs, L)
    /\ UNCHANGED <<hpVars, kVars, evalVars, diffs, L, shear33, shearKin23, elem>>

(* the six kernel functions called on the scalars of one pair of diffs *)
Elementary ==
    \E p \in Indices(Front(diffs.shape)) :
      LET k == Kernels(diffs, L)
      IN /\ elem' = [at |-> p,
                     k |-> [kk |-> k.kk[p], kg1 |-> k.kg1[p], kg2 |-> k.kg2[p],
                            g1g1 |-> k.g1g1[p], g1g2 |-> k.g1g2[p], g2g2 |-> k.g2g2[p]]]
         /\ UNCHANGED <<hpVars, kVars, evalVars, diffs, L, shear33, shearKin23,
                        shearKcross23>>

NextShear == Shear33 \/ ShearKin23 \/ ShearKcross23
SpecShear == InitShear /\ [][NextShear]_vars

NextElem == Elementary
SpecElem == InitShear /\ [][NextElem]_vars

(* ------------------- claims about the Hyperparameter ------------------- *)
Ran == hpLast.op \in {"construct", "update"}

(* a (low, high) pair of numbers with low <= high *)
IsRange(b) ==
    /\ b.t = "seq"
    /\ Len(b.items) = 2
    /\ b.items[1].isnum /\ b.items[2].isnum
    /\ b.items[1].x <= b.items[2].x

(* the same numbers, whatever the array shape *)
SameNumbers(a, b) == a.t = "num" /\ b.t = "num" /\ a.e = b.e

(* the bounds the last call validated its value against: the ones it was  *)
(* given, else the stored ones, which a call without bounds leaves alone   *)
InForce == IF hpLast.bounds # None_ THEN hpLast.bounds ELSE hp.bounds

WithinTol(val, b) ==
    \A i \in 1..Len(val.e) :
       b.items[1].x - EPS <= val.e[i] /\ val.e[i] <= b.items[2].x + EPS

(* C1: in every reachable state, when the bounds are a pair (low, high)    *)
(* every element of the value lies in [low - 1e-5, high + 1e-5].           *)
C1_ValueWithinBounds == hp.bounds.t = "seq" => WithinTol(hp.val, hp.bounds)

(* C2: with finite bounds and a numeric value, construct/update fails      *)
(* exactly when some element is below low - 1e-5 or above high + 1e-5,     *)
(* the two sides with different errors; otherwise it succeeds and the      *)
(* value read back is the value given.                                     *)
C2_RangeCheck ==
    (Ran /\ hpLast.val.t = "num" /\ IsRange(InForce)) =>
      LET v == hpLast.val
          below == \E i \in 1..Len(v.e) : v.e[i] < InForce.items[1].x - EPS
          above == \E i \in 1..Len(v.e) : v.e[i] > InForce.items[2].x + EPS
      IN /\ (hpLast.err # Ok) <=> (below \/ above)
         /\ (below /\ ~above) => hpLast.err = ValueError("lesser_than_lower_bound")
         /\ (above /\ ~below) => hpLast.err = ValueError("greater_than_upper_bound")
         /\ ~(below \/ above) => SameNumbers(hp.val, v) /\ hp.bounds = InForce

(* a value one tolerance above the upper bound is accepted and read back *)
C2_Witness ==
    /\ hpLast.op = "update" /\ hpLast.err = Ok
    /\ hpLast.bounds = None_ /\ IsRange(hp.bounds)
    /\ hpLast.val.t = "num" /\ hpLast.val.nd = 0
    /\ hpLast.val.e[1] = hp.bounds.items[2].x + EPS
    /\ hp.val = hpLast.val

(* C3: constructing with "sample" or "log_sample" and bounds (a, b), a > 0, *)
(* yields a value in [a, b] and stores exactly the bounds given.            *)
C3_SampleWithinBounds ==
    (hpLast.op = "construct" /\ hpLast.err = Ok /\ IsRange(hpLast.bounds)
       /\ hpLast.val \in {Str("sample"), Str("log_sample")}) =>
      /\ hp.bounds = hpLast.bounds
      /\ hp.val.t = "num" /\ hp.val.nd = 0
      /\ hp.bounds.items[1].x <= hp.val.e[1]
      /\ hp.val.e[1] <= hp.bounds.items[2].x

(* C4: with Fixed bounds in force, "sample" and "log_sample" are refused   *)
(* with an error, nothing is drawn and the value stays what it was.        *)
C4_NoSamplingWhenFixed ==
    [][LET l == hpLast' IN
       (/\ l.op \in {"construct", "update"}
        /\ l.val \in {Str("sample"), Str("log_sample")}
        /\ \/ l.bounds = Fixed
           \/ l.op = "update" /\ l.bounds = None_ /\ hp.bounds = Fixed) =>
         /\ l.err = ValueError("need_bounds_to_sample")
         /\ ~l.drew
         /\ hp'.val = hp.val]_vars

(* an update asks for a log-space draw while the bounds remain Fixed *)
C4_Witness ==
    /\ hpLast.op = "update" /\ hpLast.val = Str("log_sample")
    /\ hpLast.bounds = None_ /\ hp.bounds = Fixed
    /\ hpLast.err # Ok /\ hp.val.t = "num"

(* C5: after any successful construct or update the value read back is a   *)
(* number or numeric array, never a sentinel string.                       *)
C5_ValueIsNumeric == (Ran /\ hpLast.err = Ok /\ hp # NoHP) => hp.val.t = "num"

BoundsMsgs ==
    {"unknown_bound_option", "non_iterable", "unsupported_length",
     "nonscalar_lower", "nonscalar_upper", "lower_gt_upper"}

Named(name) == {kLast.args[i] : i \in {j \in 1..Len(kLast.args) : kLast.args[j].name = name}}

(* C7: a kernel built from hyperparameter dicts reads back, per parameter, *)
(* the val and bounds given; missing bounds read back Fixed, a missing val *)
(* reads back the default 1.0.                                             *)
C7_ConstructRoundTrip ==
    (kLast.op = "get_kernel" /\ kLast.err = Ok) =>
      /\ kern = kLast.tag
      /\ \A i \in 1..Len(kLast.args) :
           LET a == kLast.args[i]
               h == hyperparameters[a.name]
           IN /\ a.val # None_ => SameNumbers(h.val, a.val)
              /\ a.val = None_ => h.val = Scalar(DefaultVal)
              /\ a.bounds # None_ => h.bounds = a.bounds
              /\ a.bounds = None_ => h.bounds = Fixed

(* a Matern whose nu has both keys and whose length_scale has neither *)
C7_Witness ==
    /\ kLast.op = "get_kernel" /\ kLast.err = Ok /\ kern = "matern"
    /\ kLast.args[1].val # None_ /\ kLast.args[1].bounds = Pair(2, 3)
    /\ kLast.args[2].val = None_ /\ kLast.args[2].bounds = None_
    /\ hyperparameters["nu"].bounds = Pair(2, 3)
    /\ hyperparameters["length_scale"] = HP(Scalar(DefaultVal), Fixed)

(* C8: a successful set_params replaces exactly the fields it was given:   *)
(* an omitted field of a named parameter, every unnamed parameter and the  *)
(* metric stay as they were.                                               *)
C8_SetParamsFrame ==
    [][(kLast'.op = "set_params" /\ kLast'.err = Ok) =>
        /\ metric' = metric /\ kern' = kern
        /\ \A n \in DOMAIN hyperparameters :
             LET given == {kLast'.args[i] :
                             i \in {j \in 1..Len(kLast'.args) : kLast'.args[j].name = n}}
             IN /\ given = {} => hyperparameters'[n] = hyperparameters[n]
                /\ \A a \in given :
                     /\ a.val = None_ => hyperparameters'[n].val = hyperparameters[n].val
                     /\ a.val # None_ => SameNumbers(hyperparameters'[n].val, a.val)
                     /\ a.bounds = None_ =>
                          hyperparameters'[n].bounds = hyperparameters[n].bounds
                     /\ a.bounds # None_ => hyperparameters'[n].bounds = a.bounds]_vars

(* only the bounds of nu were given: its value and length_scale are kept *)
C8_Witness ==
    /\ kLast.op = "set_params" /\ kLast.err = Ok /\ kern = "matern"
    /\ kLast.args = <<Arg("nu", None_, Pair(2, 3))>>
    /\ hyperparameters["nu"] = HP(Scalar(2), Pair(2, 3))
    /\ hyperparameters["length_scale"] = HP(Scalar(MaxNum), Fixed)

(* C9: every failure, an unknown parameter name included, is one and the   *)
(* same kind of error, the kind the validation failures raise.             *)
C9_SingleErrorKind == kLast.err # Ok => kLast.err.kind = "ValueError"

(* C10: the parameter names are those of the kernel's kind and no          *)
(* set_params call, failing or not, changes them.                          *)
C10_NamesFixed ==
    /\ kern = "rbf" => DOMAIN hyperparameters = {"length_scale"}
    /\ kern = "matern" => DOMAIN hyperparameters = {"nu", "length_scale"}

(* a set_params naming an unknown parameter has failed on a Matern *)
C10_Witness ==
    /\ kern = "matern" /\ kLast.op = "set_params"
    /\ kLast.err.kind = "KeyError"
    /\ Named("bogus") # {}

(* C11: the factory returns an RBF for the tag "rbf" and a Matern for the  *)
(* tag "matern", built from the keyword arguments given; any other tag     *)
(* fails with an error whose message names that tag, and no kernel is      *)
(* constructed: the caller keeps what it had.                              *)
C11_Factory ==
    [][kLast'.op = "get_kernel" =>
        LET l == kLast' IN
        IF l.tag \in {"rbf", "matern"}
        THEN l.err = Ok =>
               /\ kern' = l.tag
               /\ DOMAIN hyperparameters' =
                    (IF l.tag = "rbf" THEN {"length_scale"} ELSE {"nu", "length_scale"})
               /\ l.metric # "" => metric' = l.metric
               /\ \A i \in 1..Len(l.args) :
                    l.args[i].val # None_ =>
                      SameNumbers(hyperparameters'[l.args[i].name].val, l.args[i].val)
        ELSE /\ l.err = ValueError("Kernel type " \o l.tag \o " is not supported!")
             /\ UNCHANGED <<kern, hyperparameters, metric>>]_vars

(* the tag "RBF" was refused by name and the Matern built before is kept *)
C11_Witness ==
    /\ kLast.op = "get_kernel" /\ kLast.tag = "RBF"
    /\ kLast.err = ValueError("Kernel type RBF is not supported!")
    /\ kern = "matern"

(* ------------------ claims about evaluating a kernel ------------------- *)
(* C12: evaluating a kernel, RBF or any branch of Matern, the Bessel       *)
(* branch with its in-place steps included, leaves every hyperparameter    *)
(* and the caller's distance tensor as they were, and a second call on     *)
(* the same tensor returns what the first returned.                        *)
C12_EvaluatePure ==
    [][evalVars' # evalVars =>
        /\ dists' = dists
        /\ hyperparameters' = hyperparameters
        /\ K # <<>> => K' = K]_vars

(* two calls of the Bessel branch on a tensor holding an exact zero *)
C12_Witness ==
    /\ kern = "matern" /\ K # <<>> /\ Kprev = K
    /\ \E i \in DOMAIN K :
         K[i].form = "bessel" /\ K[i].x = "eps" /\ dists[i] = Num(0, 2)

(* C19: Matern picks its formula by exact equality on nu: 0.5, 1.5, 2.5    *)
(* and inf have their closed forms of d' = d / length_scale, and every     *)
(* other nu, the default 1.0 included, takes the Bessel form of d' with    *)
(* the exact zeros of d' replaced by the machine epsilon.                  *)
C19_MaternBranches ==
    (kern = "matern" /\ K # <<>>) =>
      LET nu == ValOf(hyperparameters["nu"])
          ls == ValOf(hyperparameters["length_scale"])
      IN \A i \in DOMAIN K :
           LET n == 2 * dists[i].n
               d == dists[i].d * ls
           IN K[i] = IF nu = NuHalf THEN V("exp", "", n, d, 0)
                     ELSE IF nu = NuThreeHalves THEN V("matern32", "", n, d, 0)
                     ELSE IF nu = NuFiveHalves THEN V("matern52", "", n, d, 0)
                     ELSE IF nu = NuInf THEN V("gauss", "", n, d, 0)
                     ELSE IF n = 0 /\ d # 0 THEN V("bessel", "eps", 0, 0, nu)
                     ELSE V("bessel", "", n, d, nu)

(* the default nu on a zero and a nonzero distance *)
C19_Witness ==
    /\ kern = "matern" /\ hyperparameters["nu"].val = Scalar(DefaultVal)
    /\ Len(K) = 2
    /\ K[1] = V("bessel", "eps", 0, 0, DefaultVal)
    /\ K[2].form = "bessel" /\ K[2].x = "" /\ K[2].n > 0

RECURSIVE DropLeadingOnes(_)
DropLeadingOnes(shape) ==
    IF shape # <<>> /\ shape[1] = 1 THEN DropLeadingOnes(Tail(shape)) ELSE shape

(* the shape stated for a result with f1 and f2 fields *)
StatedShape(t, f1, f2) ==
    LET r == Len(t.shape)
    IN DropLeadingOnes(SubSeq(t.shape, 1, r - 3)) \o <<f1, t.shape[r - 2], f2, t.shape[r - 1]>>

(* C13: for diffs of shape (B, n, m, 2) the full covariance has the shape  *)
(* (B, 3, n, 3, m), the shear-only one (B, 2, n, 2, m) and the cross one   *)
(* (B, 2, n, 3, m), less the leading batch axes of length 1 only: the      *)
(* field axes and the n and m axes are kept, also for n = 1 or m = 1.      *)
C13_Shapes ==
    /\ shear33 # NoTensor => shear33.shape = StatedShape(diffs, 3, 3)
    /\ shearKin23 # NoTensor => shearKin23.shape = StatedShape(diffs, 2, 2)
    /\ shearKcross23 # NoTensor => shearKcross23.shape = StatedShape(diffs, 2, 3)

(* where a result res with f1 and f2 fields keeps block (i, j) of the pair *)
(* p = batch index + (a, b): the index (batch, i, a, j, b), less the       *)
(* entries of the axes of length 1 that the result no longer has           *)
Place(f1, f2, p, i, j) ==
    LET r == Len(p)
    IN SqueezeIdx(SubSeq(p, 1, r - 2) \o <<i, p[r - 1], j, p[r]>>, NewShape(diffs, f1, f2))
Pairs == Indices(Front(diffs.shape))

(* C14: each of the six elementary kernels is its tabulated polynomial in  *)
(* the scalars of the pair (dx, dy), times E / L^4 with                    *)
(* E = exp(-sum_sq / (2 L)).                                               *)
C14_Elementary ==
    elem # NoElem =>
      LET dx == diffs.data[elem.at \o <<0>>]
          dy == diffs.data[elem.at \o <<1>>]
          prod == dx * dy
          sum_sq == dx^2 + dy^2
          prod_sq == dx^2 * dy^2
          sum_quad == dx^4 + dy^4
          diff_xy_sq == dx^2 - dy^2
          diff_yx_sq == dy^2 - dx^2
          diff_xy_quad == dx^4 - dy^4
          (* (poly4 / 4) * E / L^4 *)
          Times(poly4) == IF poly4 = 0 THEN Zero
                          ELSE [c4 |-> poly4, e |-> <<sum_sq, 2 * L>>, l4 |-> L^4]
      IN /\ elem.k.kk = Times(8 * L^2 - 8 * L * sum_sq + 2 * prod_sq + sum_quad)
         /\ elem.k.kg1 = Times(6 * L * diff_yx_sq + diff_xy_quad)
         /\ elem.k.kg2 = Times(2 * (prod * (sum_sq - 6 * L)))
         /\ elem.k.g1g1 = Times(4 * L^2 - 4 * L * sum_sq - 2 * prod_sq + sum_quad)
         /\ elem.k.g1g2 = Times(2 * (prod * diff_xy_sq))
         /\ elem.k.g2g2 = Times(4 * (L^2 - L * sum_sq + prod_sq))

(* a pair with dx and dy of different size and a nonzero product *)
C14_Witness ==
    /\ elem # NoElem
    /\ diffs.data[elem.at \o <<0>>] = -2 /\ diffs.data[elem.at \o <<1>>] = 1
    /\ elem.k.kg1 # Zero /\ elem.k.kg2 # Zero /\ elem.k.g1g2 # Zero

(* the kernel the full covariance holds in block (i, j) *)
FullKernel(i, j) ==
    IF i = j THEN <<"kk", "g1g1", "g2g2">>[i + 1]
    ELSE IF {i, j} = {0, 1} THEN "kg1"
    ELSE IF {i, j} = {0, 2} THEN "kg2"
    ELSE "g1g2"

(* C15: in the full covariance, for every pair and batch index, block      *)
(* (0,0) is KK, (1,1) G1G1, (2,2) G2G2, (0,1) = (1,0) KG1, (0,2) = (2,0)   *)
(* KG2 and (1,2) = (2,1) G1G2: the blocks are symmetric and none is left   *)
(* at its initial zero unless its kernel is zero.                          *)
C15_FullBlocks ==
    shear33 # NoTensor =>
      LET k == Kernels(diffs, L)
      IN \A p \in Pairs : \A i \in 0..2, j \in 0..2 :
           /\ Place(3, 3, p, i, j) \in DOMAIN shear33.data
           /\ shear33.data[Place(3, 3, p, i, j)] = k[FullKernel(i, j)][p]
           /\ shear33.data[Place(3, 3, p, i, j)] = shear33.data[Place(3, 3, p, j, i)]

(* a batch of two 2 x 2 pair grids whose blocks (0,2) and (2,0) hold the   *)
(* same nonzero entry                                                      *)
C15_Witness ==
    /\ shear33.shape = <<2, 3, 2, 3, 2>>
    /\ shear33.data[<<1, 0, 1, 2, 0>>] # Zero
    /\ shear33.data[<<1, 0, 1, 2, 0>>] = shear33.data[<<1, 2, 1, 0, 0>>]
    /\ shear33.data[<<1, 0, 1, 2, 0>>] # shear33.data[<<1, 0, 0, 2, 1>>]

(* the kernel the cross covariance holds in block (i, j) *)
CrossKernel(i, j) ==
    IF j = 0 THEN (IF i = 0 THEN "kg1" ELSE "kg2")
    ELSE IF j = 1 THEN (IF i = 0 THEN "g1g1" ELSE "g1g2")
    ELSE (IF i = 0 THEN "g1g2" ELSE "g2g2")

(* C16: in the cross covariance, block (0,0) is KG1, (1,0) KG2, (0,1)      *)
(* G1G1, (0,2) and (1,1) G1G2 and (1,2) G2G2: all six blocks are written.  *)
C16_CrossBlocks ==
    shearKcross23 # NoTensor =>
      LET k == Kernels(diffs, L)
      IN \A p \in Pairs : \A i \in 0..1, j \in 0..2 :
           /\ Place(2, 3, p, i, j) \in DOMAIN shearKcross23.data
           /\ shearKcross23.data[Place(2, 3, p, i, j)] = k[CrossKernel(i, j)][p]

(* a batch of two 2 x 2 pair grids with six nonzero blocks at one pair *)
C16_Witness ==
    /\ shearKcross23.shape = <<2, 2, 2, 3, 2>>
    /\ \A i \in 0..1, j \in 0..2 : shearKcross23.data[<<1, i, 1, j, 0>>] # Zero

(* C17: block (i, j) of the shear-only covariance is block (i+1, j+1) of   *)
(* the full covariance of the same input.                                  *)
C17_KinInFull ==
    (shearKin23 # NoTensor /\ shear33 # NoTensor) =>
      \A p \in Pairs : \A i \in 0..1, j \in 0..1 :
        /\ Place(2, 2, p, i, j) \in DOMAIN shearKin23.data
        /\ Place(3, 3, p, i + 1, j + 1) \in DOMAIN shear33.data
        /\ shearKin23.data[Place(2, 2, p, i, j)] = shear33.data[Place(3, 3, p, i + 1, j + 1)]

(* both computed for a 2 x 2 grid without batch axis, blocks (0,0) and     *)
(* (1,1) of the shear-only one different                                   *)
C17_Witness ==
    /\ shearKin23.shape = <<2, 2, 2, 2>> /\ shear33.shape = <<3, 2, 3, 2>>
    /\ shearKin23.data[<<0, 1, 0, 0>>] # shearKin23.data[<<1, 1, 1, 0>>]
    /\ shearKin23.data[<<1, 1, 1, 0>>] # Zero

(* C18: for diffs all zero and L > 0 the full covariance has 2 / L^2 in    *)
(* block (0,0), 1 / L^2 in blocks (1,1) and (2,2) and 0 in every other     *)
(* block, at every pair and batch index.                                   *)
C18_ZeroDiffs ==
    (shear33 # NoTensor /\ \A idx \in DOMAIN diffs.data : diffs.data[idx] = 0) =>
      \A p \in Pairs : \A i \in 0..2, j \in 0..2 :
        LET v == shear33.data[Place(3, 3, p, i, j)]
        IN IF i = j
           THEN /\ v.e[1] = 0
                /\ v.c4 * L^2 = (IF i = 0 THEN 2 ELSE 1) * 4 * v.l4
           ELSE v = Zero

(* a batch of two 2 x 2 grids of zeros, at length scale 2 *)
C18_Witness ==
    /\ diffs.shape = <<2, 2, 2, 2>> /\ L = 2
    /\ \A idx \in DOMAIN diffs.data : diffs.data[idx] = 0
    /\ shear33.shape = <<2, 3, 2, 3, 2>>
    /\ shear33.data[<<0, 0, 0, 0, 0>>].c4 = 32

(* ------------------ claims about failing and agreeing ------------------ *)
(* C21: a set_params call that raises, whatever the reason and wherever    *)
(* in the update mapping, leaves the value and the bounds of every         *)
(* hyperparameter of the kernel as they were before the call.              *)
C21_FailedSetParamsKeeps ==
    [][(kLast'.op = "set_params" /\ kLast'.err # Ok) =>
         hyperparameters' = hyperparameters]_vars

(* C22: for the same diffs and length scale, block (i, j) of the cross     *)
(* covariance is block (i+1, j) of the full covariance, for i in {0, 1}    *)
(* and j in {0, 1, 2}: the cross layout is the two shear rows of the       *)
(* symmetric full layout.                                                  *)
C22_CrossInFull ==
    (shearKcross23 # NoTensor /\ shear33 # NoTensor) =>
      \A p \in Pairs : \A i \in 0..1, j \in 0..2 :
        /\ Place(2, 3, p, i, j) \in DOMAIN shearKcross23.data
        /\ Place(3, 3, p, i + 1, j) \in DOMAIN shear33.data
        /\ shearKcross23.data[Place(2, 3, p, i, j)]
             = shear33.data[Place(3, 3, p, i + 1, j)]

(* both computed for a batch of two 2 x 2 grids, with blocks (0,0) and     *)
(* (1,0) of the cross covariance nonzero and different at one pair         *)
C22_Witness ==
    /\ shearKcross23.shape = <<2, 2, 2, 3, 2>> /\ shear33.shape = <<2, 3, 2, 3, 2>>
    /\ shearKcross23.data[<<1, 0, 1, 0, 0>>] # Zero
    /\ shearKcross23.data[<<1, 1, 1, 0, 0>>] # Zero
    /\ shearKcross23.data[<<1, 0, 1, 0, 0>>] # shearKcross23.data[<<1, 1, 1, 0, 0>>]

====
